---- MODULE Spec2Model ----
(***************************************************************************)
(* Model of the NodeMCU RFID attendance terminal firmware:                 *)
(*   APIClient    (firmware/nodemcu-rfid/api_client.{h,cpp})               *)
(*   StateMachine (firmware/nodemcu-rfid/state_machine.{h,cpp})            *)
(* The client is a sequential object: one public entry point runs at a     *)
(* time; the retry loops of sendPostRequest / sendGetRequest are unrolled  *)
(* into one step per loop iteration so that attempts can be counted.       *)
(***************************************************************************)
EXTENDS Integers, Sequences, FiniteSets, TLC

(***************************************************************************)
(* Bounds of the model                                                     *)
(***************************************************************************)
\* longest endpoint string handed to begin()
MaxLen == 2
\* width of int / uint32_t in the model (32 on the device)
IntBits == 3
\* attempts remembered in the trace of one operation (more than the loop makes)
MaxTrace == 4

(***************************************************************************)
(* Program constants                                                       *)
(***************************************************************************)
API_TIMEOUT == 5000
API_MAX_RETRIES == 3
POST_RETRY_DELAY == 1000
POST_PRE_DELAY == 100
GET_RETRY_DELAY == 500

(***************************************************************************)
(* Integer widths: int is signed, uint32_t unsigned, both IntBits wide     *)
(***************************************************************************)
IntMin == 0 - 2 ^ (IntBits - 1)
IntMax == 2 ^ (IntBits - 1) - 1
UIntMax == 2 ^ IntBits - 1
\* conversion int -> uint32_t (assignment of `data["device_id"] | 0`)
ToUInt(i) == i % (2 ^ IntBits)

(***************************************************************************)
(* Strings: endpoint and key are sequences of characters                   *)
(***************************************************************************)
Chars == {"a", "/"}
RECURSIVE StrsOfLen(_)
StrsOfLen(n) == IF n = 0 THEN {<< >>}
                ELSE {Append(s, c) : s \in StrsOfLen(n - 1), c \in Chars}
Strs == UNION {StrsOfLen(n) : n \in 0..MaxLen}
Keys == {<< >>, <<"k">>}

\* String::endsWith("/")
EndsWithSlash(s) == Len(s) > 0 /\ s[Len(s)] = "/"
\* mutant: every trailing slash is removed
RECURSIVE StripAllSlashes(_)
StripAllSlashes(s) ==
    IF EndsWithSlash(s) THEN StripAllSlashes(SubSeq(s, 1, Len(s) - 1)) ELSE s
\* begin(): remove trailing slash if present
StripSlash(s) == IF EndsWithSlash(s) THEN SubSeq(s, 1, Len(s) - 1) ELSE s

(***************************************************************************)
(* JSON values as ArduinoJson sees them: a member is absent, a boolean, an *)
(* integer or a string; `member | default` yields the member when it has   *)
(* the type of the default and the default otherwise.                      *)
(***************************************************************************)
Absent == [t |-> "absent", b |-> FALSE, i |-> 0, s |-> ""]
JBool(v) == [t |-> "bool", b |-> v, i |-> 0, s |-> ""]
JInt(v) == [t |-> "int", b |-> FALSE, i |-> v, s |-> ""]
JStr(v) == [t |-> "str", b |-> FALSE, i |-> 0, s |-> v]

\* member | false
OrBool(m, d) == IF m.t = "bool" THEN m.b ELSE d
\* member | 0   (int default: the member must be an integer that fits an int)
OrInt(m, d) == IF m.t = "int" /\ m.i >= IntMin /\ m.i <= IntMax THEN m.i ELSE d
\* member | ""
OrStr(m, d) == IF m.t = "str" THEN m.s ELSE d

\* variant | variant: the left member when it converts to true (as<bool>():
\* a boolean is itself, an integer is non-zero, a string is true, null is
\* false), the right one otherwise
Truthy(m) == \/ m.t = "bool" /\ m.b
             \/ m.t = "int" /\ m.i # 0
             \/ m.t = "str"
\* mutant: the right member is preferred
OrVariantRight(m, d) == IF Truthy(d) THEN d ELSE m
OrVariant(m, d) == IF Truthy(m) THEN m ELSE d

(***************************************************************************)
(* Response bodies.  A body is malformed (deserializeJson fails) or a JSON *)
(* object; only the members some decoder reads are kept.                   *)
(***************************************************************************)
NoData == [present |-> FALSE, valid |-> Absent, device_id |-> Absent,
           school_id |-> Absent, student_name |-> Absent, type |-> Absent,
           status |-> Absent, message |-> Absent, success |-> Absent,
           active |-> Absent]
NoError == [present |-> FALSE, code |-> Absent, message |-> Absent]
EmptyObject == [wf |-> TRUE, success |-> Absent, message |-> Absent,
                student_name |-> Absent, data |-> NoData, error |-> NoError]
\* a body deserializeJson rejects; also the initial empty `String response`
Malformed == [EmptyObject EXCEPT !.wf = FALSE]

Bool3 == {Absent, JBool(TRUE), JBool(FALSE)}
Msgs == {Absent, JStr("m")}
Names == {Absent, JStr(""), JStr("Alice")}
\* device_id members: negative, zero, small, and one above the largest int
DeviceIds == {Absent, JInt(-1), JInt(0), JInt(1), JInt(IntMax + 1)}
SchoolIds == {Absent, JInt(3)}

ValidateData == {[NoData EXCEPT !.present = TRUE, !.valid = v, !.device_id = d,
                                !.school_id = sc] :
                    v \in Bool3, d \in DeviceIds, sc \in SchoolIds}
ValidateBodies == {Malformed} \cup
    {[EmptyObject EXCEPT !.success = su, !.message = m] : su \in Bool3, m \in Msgs}
    \cup {[EmptyObject EXCEPT !.success = su, !.data = da] :
             su \in Bool3, da \in ValidateData}
\* {success:true, data:{valid:true, device_id:1, school_id:3}}
GoodValidateBody == [EmptyObject EXCEPT !.success = JBool(TRUE),
    !.data = [NoData EXCEPT !.present = TRUE, !.valid = JBool(TRUE),
                            !.device_id = JInt(1), !.school_id = JInt(3)]]

AttendanceData ==
    {[NoData EXCEPT !.present = TRUE, !.student_name = n, !.type = ty,
                    !.status = st, !.success = su] :
        n \in Names, ty \in {Absent, JStr(""), JStr("on_time")},
        st \in {Absent, JStr("late")}, su \in Bool3}
    \cup {[NoData EXCEPT !.present = TRUE, !.student_name = n, !.message = JStr("m")] :
             n \in Names}
AttendanceBodies == {Malformed} \cup
    {[EmptyObject EXCEPT !.success = su, !.data = da] :
        su \in Bool3, da \in {NoData} \cup AttendanceData}
GoodAttendanceBody == [EmptyObject EXCEPT !.success = JBool(TRUE),
    !.data = [NoData EXCEPT !.present = TRUE, !.student_name = JStr("Alice"),
                            !.type = JStr("on_time")]]
ErrorBodies == {Malformed, EmptyObject} \cup
    {[EmptyObject EXCEPT !.error = [present |-> TRUE, code |-> c, message |-> m]] :
        c \in {Absent, JStr("VAL_NO_SCHEDULE")}, m \in Msgs}

\* {error:{code:"VAL_NO_SCHEDULE", message:"m"}}
RejectionBody == [EmptyObject EXCEPT !.error = [present |-> TRUE,
    code |-> JStr("VAL_NO_SCHEDULE"), message |-> JStr("m")]]

PairingBodies == {Malformed} \cup
    {[EmptyObject EXCEPT !.success = su, !.student_name = n, !.message = m,
                         !.data = da] :
        su \in Bool3, n \in Names, m \in Msgs,
        da \in {NoData, [NoData EXCEPT !.present = TRUE,
                                       !.student_name = JStr("Bob")]}}
GoodPairingBody == [EmptyObject EXCEPT !.success = JBool(TRUE),
                                       !.student_name = JStr("Alice")]
MessageBodies == {Malformed} \cup {[EmptyObject EXCEPT !.message = m] : m \in Msgs}

StatusData == {[NoData EXCEPT !.present = TRUE, !.active = a, !.student_name = n] :
                  a \in Bool3, n \in Names}
StatusBodies == {Malformed} \cup
    {[EmptyObject EXCEPT !.success = su, !.data = da] :
        su \in Bool3, da \in {NoData} \cup StatusData}
GoodStatusBody == [EmptyObject EXCEPT !.success = JBool(TRUE),
    !.data = [NoData EXCEPT !.present = TRUE, !.active = JBool(TRUE),
                            !.student_name = JStr("Alice")]]

(***************************************************************************)
(* What one round trip can produce: <<status, body>>.  A non-positive      *)
(* status is an HTTPClient error (no response, no body).                   *)
(***************************************************************************)
NoResponseCodes == {-1, 0}
NoResponses == {<<c, Malformed>> : c \in NoResponseCodes}
With(codes, bodies) == {<<c, b>> : c \in codes, b \in bodies}

ValidateResponses == NoResponses \cup With({200}, ValidateBodies)
                     \cup With({400, 500}, {Malformed, GoodValidateBody})
AttendanceResponses == NoResponses
                       \cup With({200}, AttendanceBodies \cup {RejectionBody})
                       \cup With({400, 404}, ErrorBodies)
                       \cup With({409, 500}, {Malformed, GoodAttendanceBody,
                                              RejectionBody})
PairingResponses == NoResponses \cup With({200}, PairingBodies)
                    \cup With({400}, MessageBodies)
                    \cup With({409}, MessageBodies \cup {GoodPairingBody})
                    \cup With({404, 500}, {Malformed, GoodPairingBody})
StatusResponses == NoResponses \cup With({200}, StatusBodies)
                   \cup With({404, 500}, {Malformed, GoodStatusBody})

(***************************************************************************)
(* Outcomes and their decoding                                             *)
(***************************************************************************)
NotConfiguredMsg == "API not configured"
ParseErrorMsg == "JSON parse error"
HttpErrorMsg(code) == "HTTP error: " \o ToString(code)

ValidationInit == [success |-> FALSE, valid |-> FALSE, deviceId |-> 0,
                   schoolId |-> 0, message |-> ""]
AttendanceInit == [success |-> FALSE, studentName |-> "", status |-> "",
                   message |-> "", errorCode |-> ""]
PairingInit == [success |-> FALSE, studentName |-> "", message |-> "",
                sessionActive |-> FALSE]
\* result slot after an entry point that returns no outcome
NoResult == [none |-> TRUE]

\* validateAPIKey, after sendPostRequest returned httpCode and response
ValidateDecode(httpCode, response) ==
    IF httpCode = 200
    THEN IF response.wf
         THEN LET success == OrBool(response.success, FALSE)
                  data == response.data
              IN  [success |-> success,
                   valid |-> IF success THEN OrBool(data.valid, FALSE) ELSE FALSE,
                   deviceId |-> IF success THEN ToUInt(OrInt(data.device_id, 0)) ELSE 0,
                   schoolId |-> IF success THEN ToUInt(OrInt(data.school_id, 0)) ELSE 0,
                   message |-> OrStr(response.message, "")]
         ELSE [ValidationInit EXCEPT !.message = ParseErrorMsg]
    ELSE [ValidationInit EXCEPT !.message = HttpErrorMsg(httpCode)]

\* mutant: the decoded identifier is stored without the valid / > 0 test
StoreDeviceIdAlways(old, httpCode, response) ==
    ValidateDecode(httpCode, response).deviceId
\* validateAPIKey: the learned device identifier after the call
StoreDeviceId(old, httpCode, response) ==
    LET r == ValidateDecode(httpCode, response)
    IN  IF httpCode = 200 /\ response.wf /\ r.success /\ r.valid /\ r.deviceId > 0
        THEN r.deviceId ELSE old

\* mutant: a returned name does not override the success flags
AttendanceAcceptedFlagsOnly(response) ==
    LET topSuccess == OrBool(response.success, FALSE)
        data == response.data
    IN  [success |-> topSuccess \/ OrBool(data.success, FALSE),
         studentName |-> OrStr(data.student_name, ""),
         status |-> OrStr(OrVariant(data.type, data.status), ""),
         message |-> OrStr(data.message, ""),
         errorCode |-> ""]
\* recordAttendance, status 200 and the body decoded
AttendanceAccepted(response) ==
    LET topSuccess == OrBool(response.success, FALSE)
        data == response.data
        studentName == OrStr(data.student_name, "")
    IN  [success |-> IF Len(studentName) > 0 THEN TRUE
                     ELSE topSuccess \/ OrBool(data.success, FALSE),
         studentName |-> studentName,
         status |-> OrStr(OrVariant(data.type, data.status), ""),
         message |-> OrStr(data.message, ""),
         errorCode |-> ""]

\* mutant: the error envelope is read at the top level, not under "error"
AttendanceRejectedFlat(response) ==
    [success |-> FALSE, studentName |-> "", status |-> "",
     message |-> OrStr(response.message, ""), errorCode |-> ""]
\* recordAttendance, status 400 or 404 and the body decoded
AttendanceRejected(response) ==
    [success |-> FALSE, studentName |-> "", status |-> "",
     message |-> OrStr(response.error.message, ""),
     errorCode |-> OrStr(response.error.code, "")]

\* mutant: the fallback is left out
AttendanceUndecodableSilent == [success |-> FALSE, studentName |-> "",
    status |-> "", message |-> "", errorCode |-> ""]
\* recordAttendance, status 400 or 404 and the body did not decode
AttendanceUndecodable == [success |-> FALSE, studentName |-> "", status |-> "",
                          message |-> "card_not_found", errorCode |-> ""]

\* mutant: the error envelope is decoded at every status other than 200
AttendanceDecodeAnyError(httpCode, response) ==
    IF httpCode = 200
    THEN IF response.wf
         THEN AttendanceAccepted(response)
         ELSE [AttendanceInit EXCEPT !.message = ParseErrorMsg]
    ELSE IF response.wf
         THEN AttendanceRejected(response)
         ELSE AttendanceUndecodable
\* recordAttendance, after sendPostRequest returned
AttendanceDecode(httpCode, response) ==
    IF httpCode = 200
    THEN IF response.wf
         THEN AttendanceAccepted(response)
         ELSE [AttendanceInit EXCEPT !.message = ParseErrorMsg]
    ELSE IF httpCode = 400 \/ httpCode = 404
    THEN IF response.wf
         THEN AttendanceRejected(response)
         ELSE AttendanceUndecodable
    ELSE [AttendanceInit EXCEPT !.message = HttpErrorMsg(httpCode)]

\* mutant: statuses without a branch of their own leave the message empty
PairingDecodeSilent(httpCode, response) ==
    IF httpCode = 200
    THEN IF response.wf
         THEN [PairingInit EXCEPT !.success = OrBool(response.success, FALSE),
                                  !.studentName = OrStr(response.student_name, ""),
                                  !.message = OrStr(response.message, "")]
         ELSE [PairingInit EXCEPT !.message = ParseErrorMsg]
    ELSE IF httpCode = 409
    THEN [PairingInit EXCEPT !.message = "card_already_used"]
    ELSE IF httpCode = 400
    THEN IF response.wf
         THEN [PairingInit EXCEPT !.message = OrStr(response.message, "Bad request")]
         ELSE [PairingInit EXCEPT !.message = "Bad request"]
    ELSE PairingInit
\* mutant: the 409 branch reads the message of the body, as the 400 branch does
PairingConflictFromBody(response) ==
    IF response.wf
    THEN [PairingInit EXCEPT !.message = OrStr(response.message, "card_already_used"),
                             !.studentName = OrStr(response.student_name, "")]
    ELSE [PairingInit EXCEPT !.message = "card_already_used"]
\* processPairing, status 409
PairingConflict(response) == [PairingInit EXCEPT !.message = "card_already_used"]

\* mutant: the message of the body is not read
PairingBadRequestFixed(response) == [PairingInit EXCEPT !.message = "Bad request"]
\* processPairing, status 400
PairingBadRequest(response) ==
    IF response.wf
    THEN [PairingInit EXCEPT !.message = OrStr(response.message, "Bad request")]
    ELSE [PairingInit EXCEPT !.message = "Bad request"]

\* mutant: the 200 branch decodes as recordAttendance does, reading the
\* nested data section and taking a non-empty name as success
PairingAcceptedNested(response) ==
    LET d == response.data
        name == IF d.present THEN OrStr(d.student_name, "")
                ELSE OrStr(response.student_name, "")
    IN  [PairingInit EXCEPT !.success = OrBool(response.success, FALSE) \/ name # "",
                            !.studentName = name,
                            !.message = OrStr(response.message, "")]
\* processPairing, status 200 with a body that parses: the flat envelope
PairingAccepted(response) ==
    [PairingInit EXCEPT !.success = OrBool(response.success, FALSE),
                        !.studentName = OrStr(response.student_name, ""),
                        !.message = OrStr(response.message, "")]

\* processPairing, after sendPostRequest returned
PairingDecode(httpCode, response) ==
    IF httpCode = 200
    THEN IF response.wf
         THEN PairingAccepted(response)
         ELSE [PairingInit EXCEPT !.message = ParseErrorMsg]
    ELSE IF httpCode = 409
    THEN PairingConflict(response)
    ELSE IF httpCode = 400
    THEN PairingBadRequest(response)
    ELSE [PairingInit EXCEPT !.message = HttpErrorMsg(httpCode)]

\* mutant: the body is decoded whatever the status
StatusDecodeAnyCode(httpCode, response) ==
    IF ~response.wf
    THEN PairingInit
    ELSE LET success == OrBool(response.success, FALSE)
             data == response.data
         IN  IF success /\ data.present
             THEN [PairingInit EXCEPT !.success = success,
                       !.sessionActive = OrBool(data.active, FALSE),
                       !.studentName = OrStr(data.student_name, "")]
             ELSE [PairingInit EXCEPT !.success = success]
\* mutant: the data section is read whatever the success flag says
StatusDecodeIgnoresSuccess(httpCode, response) ==
    IF httpCode = 200
    THEN IF ~response.wf
         THEN PairingInit
         ELSE LET success == OrBool(response.success, FALSE)
                  data == response.data
              IN  IF data.present
                  THEN [PairingInit EXCEPT !.success = success,
                            !.sessionActive = OrBool(data.active, FALSE),
                            !.studentName = OrStr(data.student_name, "")]
                  ELSE [PairingInit EXCEPT !.success = success]
    ELSE PairingInit
\* checkPairingStatus, after sendGetRequest returned
StatusDecode(httpCode, response) ==
    IF httpCode = 200
    THEN IF ~response.wf
         THEN PairingInit
         ELSE LET success == OrBool(response.success, FALSE)
                  data == response.data
              IN  IF success /\ data.present
                  THEN [PairingInit EXCEPT !.success = success,
                            !.sessionActive = OrBool(data.active, FALSE),
                            !.studentName = OrStr(data.student_name, "")]
                  ELSE [PairingInit EXCEPT !.success = success]
    ELSE PairingInit

(***************************************************************************)
(* State of the client                                                     *)
(***************************************************************************)
VARIABLES
    serverUrl,   \* APIClient::serverUrl
    apiKey,      \* APIClient::apiKey
    deviceId,    \* APIClient::deviceId, the learned device identifier
    call,        \* the public entry point that runs or ran last
    pc,          \* "idle" before any call, "loop" inside a retry loop, "done"
    retry,       \* loop variable of sendPostRequest / sendGetRequest
    httpCode,    \* local httpCode of the retry loop
    response,    \* body handed back by the retry loop
    result,      \* outcome returned by the entry point
    trace,       \* delays and attempts of the operation, in order
    args         \* arguments of the begin() call that ran last, else empty

clientVars == <<serverUrl, apiKey, deviceId, call, pc, retry, httpCode,
                response, result, trace, args>>

(***************************************************************************)
(* State of the state machine (state_machine.{h,cpp}) and the clock        *)
(***************************************************************************)
VARIABLES
    currentState,        \* StateMachine::currentState
    previousState,       \* StateMachine::previousState
    pairingStudentName,  \* StateMachine::pairingStudentName
    stateEnteredAt,      \* StateMachine::stateEnteredAt
    now,                 \* value of millis(), an unsigned long
    last                 \* the last event on the state machine: call and argument

smVars == <<currentState, previousState, pairingStudentName, stateEnteredAt,
            now, last>>

vars == <<clientVars, smVars>>

PostCalls == {"validate", "attendance", "pairing"}
Operations == PostCalls \cup {"status"}

\* APIClient::buildURL
buildURL(endpoint) == serverUrl \o endpoint
\* APIClient::isConfigured
isConfigured == Len(serverUrl) > 0 /\ Len(apiKey) > 0

Delay(ms) == [k |-> "delay", v |-> ms]
Attempt(code) == [k |-> "attempt", v |-> code]
IsAttempt(e) == e.k = "attempt"
Attempts(tr) == SelectSeq(tr, IsAttempt)
\* the trace with one more loop iteration: its delays, then its attempt
Record(tr, delays, code) ==
    IF Len(Attempts(tr)) < MaxTrace THEN tr \o delays \o <<Attempt(code)>> ELSE tr

\* mutant: one iteration too many
LoopCondOffByOne(r) == r <= API_MAX_RETRIES
\* for (retry = 0; retry < API_MAX_RETRIES; retry++)
LoopCond(r) == r < API_MAX_RETRIES
\* mutant: the loop variable is never advanced
NextRetryStuck(r) == r
\* retry++
NextRetry(r) == r + 1
\* mutant: only a 200 ends the loop, an error status is retried
GotResponseOnly200(code) == code = 200
\* if (httpCode > 0) { ...; return httpCode; }
GotResponse(code) == code > 0
\* mutant: the retry delay is also taken before the first attempt
PostDelaysAlways(r) == <<Delay(POST_RETRY_DELAY), Delay(POST_PRE_DELAY)>>
\* delays of one iteration of sendPostRequest, before http.POST
PostDelays(r) == (IF r > 0 THEN <<Delay(POST_RETRY_DELAY)>> ELSE << >>)
                 \o <<Delay(POST_PRE_DELAY)>>
\* mutant: the retry delay is also taken before the first attempt
GetDelaysAlways(r) == <<Delay(GET_RETRY_DELAY)>>
\* delays of one iteration of sendGetRequest, before http.GET
GetDelays(r) == IF r > 0 THEN <<Delay(GET_RETRY_DELAY)>> ELSE << >>

Responses(c) == CASE c = "validate" -> ValidateResponses
                  [] c = "attendance" -> AttendanceResponses
                  [] c = "pairing" -> PairingResponses
                  [] c = "status" -> StatusResponses

Decode(c, code, body) == CASE c = "validate" -> ValidateDecode(code, body)
                           [] c = "attendance" -> AttendanceDecode(code, body)
                           [] c = "pairing" -> PairingDecode(code, body)
                           [] c = "status" -> StatusDecode(code, body)

\* the outcome an operation starts from / returns when it fails fast
InitResult(c) == CASE c = "validate" -> ValidationInit
                   [] c = "attendance" -> AttendanceInit
                   [] c = "pairing" -> PairingInit
                   [] c = "status" -> PairingInit
\* mutant: the fail-fast return carries no message
FailFastNoMessage(c) == InitResult(c)
\* if (!isConfigured()) { result.message = F("API not configured"); return result; }
\* checkPairingStatus returns the bare result
FailFast(c) == IF c = "status" THEN PairingInit
               ELSE [InitResult(c) EXCEPT !.message = NotConfiguredMsg]
\* mutant: the isConfigured() guard is missing
MayProceedUnguarded(c) == TRUE
\* mutant: checkPairingStatus does not test deviceId == 0
MayProceedNoIdCheck(c) == isConfigured
\* the guard in front of the network part of each operation
MayProceed(c) == IF c = "status" THEN isConfigured /\ deviceId # 0
                 ELSE isConfigured

(***************************************************************************)
(* The state machine: modes, queries and the effect of setState            *)
(***************************************************************************)
\* enum class DeviceState
DeviceState == {"INITIALIZING", "CONNECTING_WIFI", "VALIDATING_API", "IDLE",
                "PROCESSING_CARD", "PAIRING_MODE", "SHOWING_RESULT",
                "ERROR_WIFI", "ERROR_API"}
\* identities handed to enterPairingMode
StudentNames == {"", "Alice", "Bob"}

Event(op, arg) == [op |-> op, arg |-> arg]

\* StateMachine::getState
getState == currentState
\* StateMachine::isInPairingMode
isInPairingMode == currentState = "PAIRING_MODE"
\* StateMachine::getCurrentStudentName
getCurrentStudentName == pairingStudentName
\* mutant: the difference is taken in signed arithmetic
getTimeInStateSigned == now - stateEnteredAt
\* StateMachine::getTimeInState: millis() - stateEnteredAt in unsigned arithmetic
getTimeInState == ToUInt(now - stateEnteredAt)
\* mutant: the threshold itself does not count as reached
hasTimedOutStrict(timeout) == getTimeInState > timeout
\* StateMachine::hasTimedOut
hasTimedOut(timeout) == getTimeInState >= timeout
\* StateMachine::isInErrorState
isInErrorState == currentState = "ERROR_WIFI" \/ currentState = "ERROR_API"
\* mutant: pairing mode does not accept a card
isReadyForCardIdleOnly == currentState = "IDLE"
\* StateMachine::isReadyForCard
isReadyForCard == currentState = "IDLE" \/ currentState = "PAIRING_MODE"
\* the three mode predicates the owner of the machine may call
Predicates == {"isInPairingMode", "isInErrorState", "isReadyForCard"}

\* mutant: the timestamp is taken on every call
SetStateAlwaysStamps(newState) ==
    /\ previousState' = IF newState # currentState THEN currentState
                        ELSE previousState
    /\ currentState' = newState
    /\ stateEnteredAt' = now
\* mutant: the mode is adopted but the one left is not remembered
SetStateForgetsPrevious(newState) ==
    IF newState # currentState
    THEN /\ currentState' = newState
         /\ stateEnteredAt' = now
         /\ UNCHANGED previousState
    ELSE UNCHANGED <<currentState, previousState, stateEnteredAt>>
\* body of StateMachine::setState
SetStateBody(newState) ==
    IF newState # currentState
    THEN /\ previousState' = currentState
         /\ currentState' = newState
         /\ stateEnteredAt' = now
    ELSE UNCHANGED <<currentState, previousState, stateEnteredAt>>

\* StateMachine::StateMachine
SMInit ==
    /\ currentState = "INITIALIZING"
    /\ previousState = "INITIALIZING"
    /\ pairingStudentName = ""
    /\ stateEnteredAt = 0
    /\ now = 0
    /\ last = Event("none", "")

\* StateMachine::setState called by the owner of the machine
SetState(newState) ==
    /\ SetStateBody(newState)
    /\ last' = Event("setState", newState)
    /\ UNCHANGED <<pairingStudentName, now>>
    /\ UNCHANGED clientVars

\* mutant: the identity is stored only when the mode changes
EnterPairingModeKeepsName(studentName) ==
    /\ pairingStudentName' = IF currentState = "PAIRING_MODE"
                             THEN pairingStudentName ELSE studentName
    /\ SetStateBody("PAIRING_MODE")
    /\ last' = Event("enterPairingMode", studentName)
    /\ UNCHANGED now
    /\ UNCHANGED clientVars
\* StateMachine::enterPairingMode
EnterPairingMode(studentName) ==
    /\ pairingStudentName' = studentName
    /\ SetStateBody("PAIRING_MODE")
    /\ last' = Event("enterPairingMode", studentName)
    /\ UNCHANGED now
    /\ UNCHANGED clientVars

\* mutant: outside pairing mode the call does nothing
ExitPairingModeGuarded ==
    /\ IF currentState = "PAIRING_MODE"
       THEN pairingStudentName' = "" /\ SetStateBody("IDLE")
       ELSE UNCHANGED <<pairingStudentName, currentState, previousState,
                        stateEnteredAt>>
    /\ last' = Event("exitPairingMode", "")
    /\ UNCHANGED now
    /\ UNCHANGED clientVars
\* mutant: the mode goes back to idle but the identity stays
ExitPairingModeKeepsName ==
    /\ SetStateBody("IDLE")
    /\ last' = Event("exitPairingMode", "")
    /\ UNCHANGED <<pairingStudentName, now>>
    /\ UNCHANGED clientVars
\* StateMachine::exitPairingMode
ExitPairingMode ==
    /\ pairingStudentName' = ""
    /\ SetStateBody("IDLE")
    /\ last' = Event("exitPairingMode", "")
    /\ UNCHANGED now
    /\ UNCHANGED clientVars

\* isInPairingMode / isInErrorState / isReadyForCard called by the owner:
\* each returns a value computed from currentState and assigns nothing
Query(predicate) ==
    /\ last' = Event(predicate, "")
    /\ UNCHANGED <<currentState, previousState, pairingStudentName,
                   stateEnteredAt, now>>
    /\ UNCHANGED clientVars

\* millis() advances by one, wrapping as an unsigned long does
Tick ==
    /\ now' = ToUInt(now + 1)
    /\ last' = Event("tick", "")
    /\ UNCHANGED <<currentState, previousState, pairingStudentName, stateEnteredAt>>
    /\ UNCHANGED clientVars

SMNext ==
    \/ \E newState \in DeviceState : SetState(newState)
    \/ \E studentName \in StudentNames : EnterPairingMode(studentName)
    \/ ExitPairingMode
    \/ \E predicate \in Predicates : Query(predicate)
    \/ Tick

(***************************************************************************)
(* The client: initial state and entry points                              *)
(***************************************************************************)
Init ==
    /\ SMInit
    /\ serverUrl = << >>
    /\ apiKey = << >>
    /\ deviceId = 0
    /\ call = "none"
    /\ pc = "idle"
    /\ retry = 0
    /\ httpCode = -1
    /\ response = Malformed
    /\ result = NoResult
    /\ trace = << >>
    /\ args = << >>

\* no operation is inside its retry loop: the caller may invoke an entry point
Ready == pc # "loop"

ResetLocals ==
    /\ retry' = 0
    /\ httpCode' = -1
    /\ response' = Malformed
    /\ trace' = << >>

\* mutant: begin() re-initialises the learned identifier
BeginResetsDeviceId(url, key) ==
    /\ Ready
    /\ serverUrl' = StripSlash(url)
    /\ apiKey' = key
    /\ args' = <<url, key>>
    /\ call' = "begin"
    /\ pc' = "done"
    /\ result' = NoResult
    /\ ResetLocals
    /\ deviceId' = 0
    /\ UNCHANGED smVars
\* APIClient::begin
Begin(url, key) ==
    /\ Ready
    /\ serverUrl' = StripSlash(url)
    /\ apiKey' = key
    /\ args' = <<url, key>>
    /\ call' = "begin"
    /\ pc' = "done"
    /\ result' = NoResult
    /\ ResetLocals
    /\ UNCHANGED deviceId
    /\ UNCHANGED smVars

\* APIClient::setDeviceId
SetDeviceId(id) ==
    /\ Ready
    /\ deviceId' = id
    /\ call' = "setDeviceId"
    /\ args' = << >>
    /\ pc' = "done"
    /\ result' = NoResult
    /\ ResetLocals
    /\ UNCHANGED <<serverUrl, apiKey>>
    /\ UNCHANGED smVars

\* APIClient::getDeviceId
GetDeviceId ==
    /\ Ready
    /\ call' = "getDeviceId"
    /\ args' = << >>
    /\ pc' = "done"
    /\ result' = [id |-> deviceId]
    /\ ResetLocals
    /\ UNCHANGED <<serverUrl, apiKey, deviceId>>
    /\ UNCHANGED smVars

\* APIClient::isConfigured called by the owner of the client
IsConfiguredCall ==
    /\ Ready
    /\ call' = "isConfigured"
    /\ args' = << >>
    /\ pc' = "done"
    /\ result' = [configured |-> isConfigured]
    /\ ResetLocals
    /\ UNCHANGED <<serverUrl, apiKey, deviceId>>
    /\ UNCHANGED smVars

\* entry into validateAPIKey / recordAttendance / processPairing /
\* checkPairingStatus up to the call of the retry loop
CallOp(c) ==
    /\ Ready
    /\ call' = c
    /\ args' = << >>
    /\ ResetLocals
    /\ IF MayProceed(c)
       THEN /\ pc' = "loop"
            /\ result' = InitResult(c)
       ELSE /\ pc' = "done"
            /\ result' = FailFast(c)
    /\ UNCHANGED <<serverUrl, apiKey, deviceId>>
    /\ UNCHANGED smVars

CallValidate == CallOp("validate")
CallAttendance == CallOp("attendance")
CallPairing == CallOp("pairing")
CallStatus == CallOp("status")

\* the retry loop returned httpCode: the rest of the operation
Finish(code, body) ==
    /\ pc' = "done"
    /\ result' = Decode(call, code, body)
    /\ deviceId' = IF call = "validate" THEN StoreDeviceId(deviceId, code, body)
                   ELSE deviceId

\* one iteration of the loop of sendPostRequest / sendGetRequest
Iteration(delays) ==
    /\ pc = "loop"
    /\ LoopCond(retry)
    /\ \E r \in Responses(call) :
          /\ trace' = Record(trace, delays, r[1])
          /\ httpCode' = r[1]
          /\ IF GotResponse(r[1])
             THEN /\ response' = r[2]
                  /\ retry' = retry
                  /\ Finish(r[1], r[2])
             ELSE /\ retry' = NextRetry(retry)
                  /\ UNCHANGED <<response, pc, result, deviceId>>
    /\ UNCHANGED <<serverUrl, apiKey, call, args>>
    /\ UNCHANGED smVars

PostAttempt == call \in PostCalls /\ Iteration(PostDelays(retry))
GetAttempt == call = "status" /\ Iteration(GetDelays(retry))

\* the loop condition fails: return httpCode (the last, non-positive status)
LoopExit ==
    /\ pc = "loop"
    /\ ~LoopCond(retry)
    /\ Finish(httpCode, response)
    /\ UNCHANGED <<serverUrl, apiKey, call, retry, httpCode, response, trace,
                   args>>
    /\ UNCHANGED smVars

PostLoopExit == call \in PostCalls /\ LoopExit
GetLoopExit == call = "status" /\ LoopExit

SetIds == {0, 1, UIntMax}

Next ==
    \/ \E url \in Strs, key \in Keys : Begin(url, key)
    \/ \E id \in SetIds : SetDeviceId(id)
    \/ GetDeviceId
    \/ IsConfiguredCall
    \/ CallValidate
    \/ CallAttendance
    \/ CallPairing
    \/ CallStatus
    \/ PostAttempt
    \/ GetAttempt
    \/ PostLoopExit
    \/ GetLoopExit

Spec == Init /\ [][Next]_vars

\* the state machine driven by its owner, the client left alone
SpecSM == Init /\ [][SMNext]_vars

\* every blocking call of a loop iteration ends (API_TIMEOUT, delay), so a
\* loop that can take a step does take it
FairSpec == Spec /\ WF_vars(PostAttempt) /\ WF_vars(GetAttempt)
                 /\ WF_vars(PostLoopExit) /\ WF_vars(GetLoopExit)

(***************************************************************************)
(* Properties of the client                                                *)
(***************************************************************************)
\* an operation of the four has returned
Returned == pc = "done" /\ call \in Operations
\* number of round trips of the current operation
NumAttempts == Len(Attempts(trace))
\* status of the i-th round trip
Status(i) == Attempts(trace)[i].v
\* the operation went to the network and no round trip got a response
NoResponseAtAll == NumAttempts > 0 /\ \A i \in 1..NumAttempts : Status(i) <= 0

\* C1: retry bound.  An operation issued on a client that passes the guard
\* (configured; for the status poll also an identifier learned), all of whose
\* attempts return a status <= 0, makes exactly API_MAX_RETRIES attempts,
\* leaves the loop and returns success = false; no loop runs more attempts.
C1_RetryBound ==
    /\ NumAttempts <= API_MAX_RETRIES
    /\ (Returned /\ MayProceed(call) /\ (\A i \in 1..NumAttempts : Status(i) <= 0))
          => (NumAttempts = API_MAX_RETRIES /\ ~result.success)
C1_Witness ==
    /\ Returned /\ call = "status" /\ NoResponseAtAll
    /\ NumAttempts = API_MAX_RETRIES /\ ~result.success

\* C2: short-circuit.  Every attempt that is followed by another attempt, or
\* by a further turn of the loop, returned a status <= 0: an attempt with a
\* positive status (error statuses and undecodable bodies included) is the
\* last one.
C2_ShortCircuit ==
    /\ \A i \in 1..(NumAttempts - 1) : Status(i) <= 0
    /\ pc = "loop" => \A i \in 1..NumAttempts : Status(i) <= 0
    /\ (NumAttempts >= 1 /\ Status(1) > 0) => (NumAttempts = 1 /\ pc = "done")
C2_Witness ==
    /\ Returned /\ call = "attendance" /\ NumAttempts = 1 /\ Status(1) = 500
    /\ httpCode = 500

\* C3: while isConfigured() is false every operation returns success = false
\* without a single network attempt (and never enters a retry loop).
C3_UnconfiguredFailsFast ==
    (call \in Operations /\ ~isConfigured)
        => (pc = "done" /\ ~result.success /\ NumAttempts = 0 /\ trace = << >>)
C3_Witness ==
    /\ Returned /\ call = "validate" /\ ~isConfigured /\ Len(serverUrl) > 0
    /\ ~result.success /\ NumAttempts = 0

\* C4 as stated: while isConfigured() is false the outcome of every one of the
\* four operations carries the message "API not configured".
C4_Original ==
    (Returned /\ ~isConfigured) => result.message = NotConfiguredMsg
\* C4 amended: validateAPIKey, recordAttendance and processPairing carry the
\* message "API not configured"; checkPairingStatus returns the zero outcome,
\* whose message is empty.
C4_ConfigErrorMessage ==
    (Returned /\ ~isConfigured)
        => IF call \in PostCalls
           THEN result.message = NotConfiguredMsg /\ ~result.success
           ELSE result = PairingInit /\ result.message = ""
C4_Witness ==
    Returned /\ ~isConfigured /\ call = "pairing" /\ result.message = NotConfiguredMsg

\* C5: no false success.  An outcome has success = true only when the
\* operation has returned and its final attempt returned status 200 with a
\* well-formed body.
C5_NoFalseSuccess ==
    (call \in Operations /\ result.success)
        => /\ pc = "done"
           /\ NumAttempts >= 1
           /\ Status(NumAttempts) = 200
           /\ httpCode = 200
           /\ response.wf
C5_Witness ==
    /\ Returned /\ call = "status" /\ result.success /\ NumAttempts = 2
    /\ Status(1) <= 0 /\ Status(2) = 200

\* C6 as stated: when all attempts are exhausted without a response, each of
\* the four operations returns success = false and a non-empty message.
C6_Original ==
    (Returned /\ NoResponseAtAll) => (~result.success /\ result.message # "")
\* C6 amended: when all attempts are exhausted without a response,
\* validateAPIKey, recordAttendance and processPairing return success = false
\* with the message "HTTP error: <last status>"; checkPairingStatus returns
\* the zero outcome, whose message is empty.
C6_TransportFailureMessage ==
    (Returned /\ NoResponseAtAll)
        => /\ ~result.success
           /\ NumAttempts = API_MAX_RETRIES
           /\ IF call \in PostCalls
              THEN /\ result.message = "HTTP error: " \o ToString(Status(NumAttempts))
                   /\ result.message # ""
              ELSE result = [success |-> FALSE, studentName |-> "",
                             message |-> "", sessionActive |-> FALSE]
C6_Witness ==
    /\ Returned /\ NoResponseAtAll /\ call = "pairing"
    /\ result.message = "HTTP error: -1"

\* C7: every operation that entered its retry loop returns an outcome,
\* whatever each attempt produces.
C7_AlwaysReturns == (pc = "loop") ~> Returned
C7_Witness ==
    /\ Returned /\ call = "validate" /\ NumAttempts = API_MAX_RETRIES
    /\ Status(1) <= 0 /\ Status(2) <= 0 /\ Status(3) = 200 /\ ~response.wf

\* C8 as stated: once the learned identifier is non-zero its value never
\* changes again.
C8_Original == [][deviceId # 0 => deviceId' = deviceId]_vars
\* C8 amended: the learned identifier is initially 0 and, once non-zero, is
\* never set back to 0 by begin or by any of the four operations; it is not
\* set only once: each validateAPIKey that decodes success, valid and an
\* identifier > 0 from a 200 response overwrites it, and setDeviceId stores
\* any value, 0 included.
C8_NeverCleared ==
    /\ deviceId = 0
    /\ [][(deviceId # 0 /\ call' # "setDeviceId") => deviceId' # 0]_vars
    /\ [][(Returned' /\ call' = "validate" /\ httpCode' = 200 /\ response'.wf
           /\ result'.success /\ result'.valid /\ result'.deviceId > 0
           /\ pc = "loop")
              => deviceId' = result'.deviceId]_vars
C8_Witness ==
    /\ Returned /\ call = "validate" /\ deviceId = 1
    /\ httpCode = 200 /\ result.success /\ ~result.valid
    /\ result.deviceId = UIntMax

\* C9 as stated: validateAPIKey is the only entry point that changes the
\* learned identifier, and no operation changes the endpoint or the token.
C9_Original ==
    [][/\ deviceId' # deviceId => call' = "validate"
       /\ call' \in Operations => (serverUrl' = serverUrl /\ apiKey' = apiKey)]_vars
\* C9 amended: validateAPIKey and setDeviceId are the only entry points that
\* change the learned identifier (begin, recordAttendance, processPairing,
\* checkPairingStatus, isConfigured and getDeviceId leave it alone), and none
\* of the four operations changes the stored endpoint or token.
C9_Writers ==
    [][/\ deviceId' # deviceId => call' \in {"validate", "setDeviceId"}
       /\ call' \in Operations => (serverUrl' = serverUrl /\ apiKey' = apiKey)]_vars
C9_Witness ==
    /\ call = "begin" /\ deviceId = 1 /\ isConfigured

\* the member holds a value a uint32_t can hold
FitsUInt(m) == m.t = "int" /\ m.i >= 0 /\ m.i <= UIntMax
\* C10: validateAPIKey decoding.  On 200 with a well-formed body success is
\* the top-level flag; valid, deviceId and schoolId are data.valid,
\* data.device_id and data.school_id when success is true and false/0/0
\* otherwise; with success and valid the learned identifier becomes
\* data.device_id for every such value > 0.  Any other status or a malformed
\* body yields false, false, 0, 0.
C10_Original ==
    (Returned /\ call = "validate" /\ isConfigured)
        => IF httpCode = 200 /\ response.wf
           THEN LET su == response.success = JBool(TRUE)
                    d == response.data
                IN  /\ result.success = su
                    /\ ~su => (~result.valid /\ result.deviceId = 0
                               /\ result.schoolId = 0)
                    /\ su => /\ result.valid = (d.valid = JBool(TRUE))
                             /\ FitsUInt(d.device_id)
                                   => result.deviceId = d.device_id.i
                             /\ FitsUInt(d.school_id)
                                   => result.schoolId = d.school_id.i
                    /\ (su /\ d.valid = JBool(TRUE) /\ FitsUInt(d.device_id)
                           /\ d.device_id.i > 0)
                          => deviceId = d.device_id.i
           ELSE /\ ~result.success /\ ~result.valid
                /\ result.deviceId = 0 /\ result.schoolId = 0

\* the status poll went to the network
StatusOnNetwork == call = "status" /\ (pc = "loop" \/ NumAttempts > 0)
ZeroPairingOutcome == [success |-> FALSE, studentName |-> "", message |-> "",
                       sessionActive |-> FALSE]

\* C11 as stated: checkPairingStatus returns the zero outcome without a network
\* attempt whenever the client is unconfigured or no identifier is learned,
\* and the identifier a status query needs is only ever learned through
\* validateAPIKey (the identifier leaves 0 only in a step of validateAPIKey).
C11_Original ==
    /\ [](StatusOnNetwork => (isConfigured /\ deviceId # 0))
    /\ []((call = "status" /\ (~isConfigured \/ deviceId = 0))
             => (pc = "done" /\ result = ZeroPairingOutcome /\ NumAttempts = 0))
    /\ [][(deviceId = 0 /\ deviceId' # 0) => call' = "validate"]_vars
\* C11 amended: checkPairingStatus returns the zero outcome without a network
\* attempt whenever the client is unconfigured or the learned identifier is
\* 0; a status query reaches the network only after the identifier was made
\* non-zero, which only a validateAPIKey that stored an identifier or a
\* setDeviceId call does.
C11_StatusNoOp ==
    /\ [](StatusOnNetwork => (isConfigured /\ deviceId # 0))
    /\ []((call = "status" /\ (~isConfigured \/ deviceId = 0))
             => (pc = "done" /\ result = ZeroPairingOutcome /\ NumAttempts = 0))
    /\ [][(deviceId = 0 /\ deviceId' # 0)
             => (call' \in {"validate", "setDeviceId"} /\ pc' = "done")]_vars
C11_Witness ==
    /\ Returned /\ call = "status" /\ isConfigured /\ deviceId = 0
    /\ result = ZeroPairingOutcome /\ NumAttempts = 0

\* recordAttendance returned from status 200 with a well-formed body
AttendanceAt200 == Returned /\ call = "attendance" /\ httpCode = 200 /\ response.wf
IsTrue(m) == m.t = "bool" /\ m.b
NonEmptyStr(m) == m.t = "str" /\ m.s # ""

\* C12: attendance success rule.  At status 200 with a well-formed body,
\* success = (top-level success flag) or (data.success flag) or
\* (data.student_name non-empty).
C12_AttendanceSuccessRule ==
    AttendanceAt200
        => result.success = (\/ IsTrue(response.success)
                             \/ IsTrue(response.data.success)
                             \/ NonEmptyStr(response.data.student_name))
C12_Witness ==
    /\ AttendanceAt200 /\ response.success = JBool(FALSE)
    /\ response.data.success = JBool(FALSE)
    /\ response.data.student_name = JStr("Alice")
    /\ result.success /\ result.studentName = "Alice"

\* C13: status-label precedence.  At status 200 with a well-formed body the
\* label is data.type when that member is present, else data.status when
\* that member is present, else empty.
C13_LabelPrecedence ==
    AttendanceAt200
        => result.status = IF response.data.type.t = "str"
                           THEN response.data.type.s
                           ELSE IF response.data.status.t = "str"
                           THEN response.data.status.s
                           ELSE ""
C13_Witness ==
    /\ AttendanceAt200 /\ response.data.type = JStr("on_time")
    /\ response.data.status = JStr("late") /\ result.status = "on_time"

\* recordAttendance returned from status 400 or 404
AttendanceAt4xx == Returned /\ call = "attendance" /\ httpCode \in {400, 404}
\* the attempt that got the status was the only one that got a response
LastAttemptOnly ==
    /\ NumAttempts >= 1
    /\ Status(NumAttempts) = httpCode
    /\ \A i \in 1..(NumAttempts - 1) : Status(i) <= 0

\* C14: attendance business rejection.  At status 400 or 404 with a decodable
\* error envelope: success = false, errorCode = error.code, message =
\* error.message, and the request is not retried.
C14_BusinessRejection ==
    (AttendanceAt4xx /\ response.wf)
        => /\ ~result.success
           /\ result.errorCode = (IF response.error.code.t = "str"
                                  THEN response.error.code.s ELSE "")
           /\ result.message = (IF response.error.message.t = "str"
                                THEN response.error.message.s ELSE "")
           /\ result.studentName = "" /\ result.status = ""
           /\ LastAttemptOnly
C14_Witness ==
    /\ AttendanceAt4xx /\ response.wf /\ httpCode = 404 /\ NumAttempts = 1
    /\ response.error.code = JStr("VAL_NO_SCHEDULE")
    /\ result.errorCode = "VAL_NO_SCHEDULE" /\ result.message = "m"

\* C15 as stated: at status 400 or 404 with a body that fails to decode,
\* errorCode = "card_not_found" and success = false.
C15_Original ==
    (AttendanceAt4xx /\ ~response.wf)
        => (result.errorCode = "card_not_found" /\ ~result.success)
\* C15 amended: at status 400 or 404 with a body that fails to decode, the
\* outcome's message is "card_not_found", its errorCode stays empty and
\* success = false.
C15_RejectionFallback ==
    (AttendanceAt4xx /\ ~response.wf)
        => /\ result.message = "card_not_found"
           /\ result.errorCode = ""
           /\ ~result.success
C15_Witness ==
    /\ AttendanceAt4xx /\ ~response.wf /\ httpCode = 400
    /\ result.message = "card_not_found"

PairingReturned == Returned /\ call = "pairing" /\ isConfigured

\* C16: processPairing at status 409 returns success = false, message =
\* "card_already_used" and an empty studentName, whatever the body.
C16_PairingConflict ==
    (PairingReturned /\ httpCode = 409)
        => /\ ~result.success
           /\ result.message = "card_already_used"
           /\ result.studentName = ""
C16_Witness ==
    /\ PairingReturned /\ httpCode = 409 /\ response.wf
    /\ response.message = JStr("m") /\ result.message = "card_already_used"

\* C17: processPairing at status 400 returns success = false and the body's
\* message member when the body decodes and has one, "Bad request" otherwise;
\* a status other than 200, 400 and 409 yields success = false and
\* "HTTP error: <status>".
C17_PairingOtherStatuses ==
    /\ (PairingReturned /\ httpCode = 400)
          => /\ ~result.success
             /\ result.message = IF response.wf /\ response.message.t = "str"
                                 THEN response.message.s ELSE "Bad request"
    /\ (PairingReturned /\ httpCode \notin {200, 400, 409})
          => /\ ~result.success
             /\ result.message = "HTTP error: " \o ToString(httpCode)
C17_Witness ==
    /\ PairingReturned /\ httpCode = 400 /\ response.wf
    /\ response.message = JStr("m") /\ result.message = "m"

(***************************************************************************)
(* Properties of the state machine                                         *)
(***************************************************************************)
\* C18: pairing-session entry and exit.  From every mode and stored identity,
\* after enterPairingMode(n) the mode is PAIRING_MODE and
\* getCurrentStudentName() = n; after exitPairingMode() the mode is IDLE and
\* getCurrentStudentName() is empty, also when the machine was not in
\* PAIRING_MODE.
C18_PairingEntryExit ==
    /\ last.op = "enterPairingMode"
          => (getState = "PAIRING_MODE" /\ isInPairingMode
              /\ getCurrentStudentName = last.arg)
    /\ last.op = "exitPairingMode"
          => (getState = "IDLE" /\ getCurrentStudentName = "")
C18_Witness ==
    /\ last.op = "exitPairingMode" /\ previousState = "ERROR_API"
    /\ currentState = "IDLE" /\ pairingStudentName = ""

\* the identity is empty outside PAIRING_MODE
IdentityOnlyInPairing == currentState # "PAIRING_MODE" => getCurrentStudentName = ""

\* C19 as stated: in every state reachable by setState, enterPairingMode and
\* exitPairingMode calls, getCurrentStudentName() is empty whenever the mode
\* is not PAIRING_MODE.
C19_Original == IdentityOnlyInPairing
\* C19 amended: the identity is empty outside PAIRING_MODE initially, and
\* every enterPairingMode call, every exitPairingMode call and every setState
\* call made while the mode is not PAIRING_MODE keeps it so; a setState call
\* that leaves PAIRING_MODE does not clear the identity.
C19_IdentityKeptByPairingCalls ==
    /\ IdentityOnlyInPairing
    /\ [][(IdentityOnlyInPairing
           /\ ~(last'.op = "setState" /\ currentState = "PAIRING_MODE"))
              => IdentityOnlyInPairing']_vars
C19_Witness ==
    /\ last.op = "exitPairingMode" /\ previousState = "PAIRING_MODE"
    /\ currentState = "IDLE" /\ pairingStudentName = "" /\ getTimeInState = 0

\* C20: no-op transition.  setState(m) called while the mode is already m
\* leaves the mode, the previous mode and the entry timestamp unchanged, so
\* getTimeInState() still counts from the first call.
C20_NoOpTransition ==
    [][(last'.op = "setState" /\ last'.arg = currentState)
          => /\ currentState' = currentState
             /\ previousState' = previousState
             /\ stateEnteredAt' = stateEnteredAt
             /\ getTimeInState' = getTimeInState]_vars
C20_Witness ==
    /\ last = Event("setState", "PAIRING_MODE") /\ currentState = "PAIRING_MODE"
    /\ getTimeInState = 2 /\ now < stateEnteredAt

\* C21: accepted transition.  The initial mode is INITIALIZING; setState(m)
\* can be called in every state with every mode m, and when m differs from
\* the current mode c the call leaves current = m, previous = c and the entry
\* timestamp equal to the clock value at the call; the current mode is always
\* one of the nine.
C21_AcceptedTransition ==
    /\ currentState = "INITIALIZING"
    /\ [](currentState \in DeviceState)
    /\ [](\A m \in DeviceState : ENABLED SetState(m))
    /\ [][(last'.op = "setState" /\ last'.arg # currentState)
             => /\ currentState' = last'.arg
                /\ previousState' = currentState
                /\ stateEnteredAt' = now
                /\ now' = now]_vars
C21_Witness ==
    /\ last = Event("setState", "PROCESSING_CARD")
    /\ currentState = "PROCESSING_CARD" /\ previousState = "ERROR_API"
    /\ now = 3 /\ stateEnteredAt = 3

\* thresholds handed to hasTimedOut
Thresholds == 0..UIntMax
\* elapsed time in the current mode on the w-bit clock
Elapsed == (now - stateEnteredAt) % (UIntMax + 1)
\* a step that enters another mode
ModeChanges == currentState' # currentState

\* C22 as stated: for every threshold T >= 0, hasTimedOut(T) is false
\* immediately after an accepted transition and true whenever the elapsed
\* time in the current mode has reached T.
C22_Original ==
    /\ [][ModeChanges => \A T \in Thresholds : ~hasTimedOut(T)']_vars
    /\ [](\A T \in Thresholds : Elapsed >= T => hasTimedOut(T))
\* C22 amended: hasTimedOut(T) is true exactly when the elapsed time in the
\* current mode is at least T; immediately after an accepted transition it is
\* false for every T > 0 and true for T = 0.
C22_Timeout ==
    /\ [][ModeChanges => /\ hasTimedOut(0)'
                         /\ \A T \in Thresholds \ {0} : ~hasTimedOut(T)']_vars
    /\ [](\A T \in Thresholds : hasTimedOut(T) <=> Elapsed >= T)
C22_Witness ==
    /\ currentState = "PROCESSING_CARD" /\ last.op = "tick"
    /\ Elapsed = 2 /\ hasTimedOut(2) /\ ~hasTimedOut(3)

\* the clock advances and no transition is accepted
ClockAdvances == now' # now /\ currentState' = currentState
\* clock minus entry timestamp, modulo 2^w, written out
DwellModular ==
    /\ getTimeInState \in 0..UIntMax
    /\ getTimeInState = IF now >= stateEnteredAt THEN now - stateEnteredAt
                        ELSE now + (UIntMax + 1) - stateEnteredAt

\* C23 as stated: getTimeInState() is the clock minus the entry timestamp
\* modulo 2^w, never negative, and non-decreasing as the clock advances while
\* no transition is accepted.
C23_Original ==
    /\ []DwellModular
    /\ [][ClockAdvances => getTimeInState' >= getTimeInState]_vars
\* C23 amended: getTimeInState() is the clock minus the entry timestamp
\* modulo 2^w, never negative, also when the clock wrapped between entry and
\* query; while no transition is accepted each clock advance adds one to it,
\* except that from 2^w - 1 it goes back to 0.
C23_DwellTime ==
    /\ []DwellModular
    /\ [][ClockAdvances => getTimeInState' = IF getTimeInState = UIntMax THEN 0
                                             ELSE getTimeInState + 1]_vars
C23_Witness ==
    /\ last.op = "tick" /\ now < stateEnteredAt /\ getTimeInState = 3
    /\ currentState = "IDLE"

\* C24: mode predicates.  isInPairingMode() is true iff the mode is
\* PAIRING_MODE, isInErrorState() iff it is ERROR_WIFI or ERROR_API,
\* isReadyForCard() iff it is IDLE or PAIRING_MODE; isInErrorState() and
\* isReadyForCard() are never both true, and calling a predicate changes
\* nothing of the machine.
C24_ModePredicates ==
    /\ [](/\ isInPairingMode <=> currentState = "PAIRING_MODE"
          /\ isInErrorState <=> currentState \in {"ERROR_WIFI", "ERROR_API"}
          /\ isReadyForCard <=> currentState \in {"IDLE", "PAIRING_MODE"}
          /\ ~(isInErrorState /\ isReadyForCard))
    /\ [][last'.op \in Predicates
             => UNCHANGED <<currentState, previousState, pairingStudentName,
                            stateEnteredAt, now>>]_vars
C24_Witness ==
    /\ last.op = "isReadyForCard" /\ currentState = "PAIRING_MODE"
    /\ pairingStudentName = "Alice" /\ isReadyForCard /\ ~isInErrorState

(***************************************************************************)
(* Properties of the client, continued                                     *)
(***************************************************************************)
\* the endpoint argument of the last begin() with one trailing '/' removed
OneSlashRemoved ==
    LET e == args[1]
    IN  IF Len(e) > 0 /\ e[Len(e)] = "/" THEN SubSeq(e, 1, Len(e) - 1) ELSE e

\* C25: configure.  begin(endpoint, token) stores the token unchanged and the
\* endpoint with exactly one trailing '/' removed when it ends in '/', makes
\* no network attempt, and a second begin with the same arguments leaves the
\* stored endpoint and token as they are; isConfigured() is true iff the
\* stored endpoint and the stored token are both non-empty, so begin("/", t)
\* leaves the client unconfigured.
C25_Configure ==
    /\ [](call = "begin"
            => /\ apiKey = args[2]
               /\ serverUrl = OneSlashRemoved
               /\ pc = "done" /\ trace = << >>
               /\ args[1] = <<"/">> => ~isConfigured)
    /\ [](isConfigured <=> (serverUrl # << >> /\ apiKey # << >>))
    /\ [](call = "isConfigured"
            => result.configured = (serverUrl # << >> /\ apiKey # << >>))
    /\ [][(call = "begin" /\ call' = "begin" /\ args' = args)
             => (serverUrl' = serverUrl /\ apiKey' = apiKey)]_vars
C25_Witness ==
    /\ call = "begin" /\ args = << <<"a", "/">>, <<"k">> >>
    /\ serverUrl = <<"a">> /\ apiKey = <<"k">> /\ isConfigured

\* C26: endpoint invariant.  After any sequence of begin(endpoint, token)
\* calls the stored endpoint does not end in '/'.
C26_Original == ~EndsWithSlash(serverUrl)

\* time spent so far by the operation when every attempt lasts API_TIMEOUT
RECURSIVE WorstCaseTime(_)
WorstCaseTime(tr) ==
    IF tr = << >> THEN 0
    ELSE (IF IsAttempt(Head(tr)) THEN API_TIMEOUT ELSE Head(tr).v)
         + WorstCaseTime(Tail(tr))

\* C27: blocking bound.  With each attempt lasting at most API_TIMEOUT, the
\* attempts and all delays of one operation (the 100 ms pause before each
\* POST included) add up to at most (API_TIMEOUT + 1000) x API_MAX_RETRIES for
\* the POST operations and (API_TIMEOUT + 500) x API_MAX_RETRIES for the
\* status poll.
C27_BlockingBound ==
    /\ call \in PostCalls
          => WorstCaseTime(trace) <= (API_TIMEOUT + POST_RETRY_DELAY) * API_MAX_RETRIES
    /\ call = "status"
          => WorstCaseTime(trace) <= (API_TIMEOUT + GET_RETRY_DELAY) * API_MAX_RETRIES
C27_Witness ==
    /\ Returned /\ call = "attendance" /\ NoResponseAtAll
    /\ NumAttempts = API_MAX_RETRIES
    /\ WorstCaseTime(trace) = 3 * API_TIMEOUT + 2 * POST_RETRY_DELAY + 3 * POST_PRE_DELAY

\* the inter-attempt delay of the loop the current operation uses
RetryDelay == IF call \in PostCalls THEN POST_RETRY_DELAY ELSE GET_RETRY_DELAY
IsRetryDelay(e) == e.k = "delay" /\ e.v = RetryDelay
NumRetryDelays == Len(SelectSeq(trace, IsRetryDelay))

\* C28: retry delay ordering.  Within one operation k attempts come with
\* exactly k - 1 inter-attempt delays; each such delay follows an attempt
\* with a non-positive status and precedes the next attempt, none precedes
\* the first attempt or follows the last one; the delay of the POST loop
\* (1000 ms) is longer than that of the status poll (500 ms).
C28_RetryDelayOrdering ==
    /\ POST_RETRY_DELAY > GET_RETRY_DELAY
    /\ call \in Operations =>
          /\ NumRetryDelays = IF NumAttempts = 0 THEN 0 ELSE NumAttempts - 1
          /\ trace # << >> => IsAttempt(trace[Len(trace)])
          /\ \A i \in 1..Len(trace) :
                IsRetryDelay(trace[i]) =>
                   /\ \E j \in 1..(i - 1) :
                         /\ IsAttempt(trace[j]) /\ trace[j].v <= 0
                         /\ \A k \in (j + 1)..(i - 1) : ~IsAttempt(trace[k])
                   /\ \E j \in (i + 1)..Len(trace) :
                         /\ IsAttempt(trace[j])
                         /\ \A k \in (i + 1)..(j - 1) : ~IsRetryDelay(trace[k])
C28_Witness ==
    /\ Returned /\ call = "status" /\ NumAttempts = 3 /\ NumRetryDelays = 2
    /\ Status(1) <= 0 /\ Status(2) <= 0 /\ Status(3) = 200
    /\ trace[2] = Delay(GET_RETRY_DELAY)

\* validateAPIKey comes back from its retry loop in this step
ValidateReturns == call = "validate" /\ pc = "loop" /\ pc' = "done"
\* the response of the step satisfies the storing condition as the claim
\* words it: 200, well-formed, success = true, data.valid = true, device_id > 0
StoringResponse ==
    /\ httpCode' = 200 /\ response'.wf
    /\ IsTrue(response'.success) /\ IsTrue(response'.data.valid)
    /\ response'.data.device_id.t = "int" /\ response'.data.device_id.i > 0

\* C29: validateAPIKey sets the learned device identifier to data.device_id
\* if and only if the response has status 200, a well-formed body, success =
\* true, data.valid = true and data.device_id > 0; in every other case
\* (unconfigured, transport failure, other status, malformed body, success
\* false, valid false, device_id <= 0) the identifier keeps its value.
C29_Original ==
    [][/\ (ValidateReturns /\ StoringResponse)
             => deviceId' = response'.data.device_id.i
       /\ (ValidateReturns /\ ~StoringResponse) => deviceId' = deviceId
       /\ (call' = "validate" /\ pc # "loop") => deviceId' = deviceId]_vars

PairingAt200 == PairingReturned /\ httpCode = 200 /\ response.wf

\* C30: processPairing at status 200 with a well-formed body decodes the flat
\* envelope: success is the top-level success flag only, studentName the
\* top-level student_name and message the top-level message; a non-empty
\* student name with success = false leaves success false, and members
\* nested under data are ignored.
C30_PairingFlatEnvelope ==
    PairingAt200 =>
        /\ result.success = IsTrue(response.success)
        /\ result.studentName = (IF response.student_name.t = "str"
                                 THEN response.student_name.s ELSE "")
        /\ result.message = (IF response.message.t = "str"
                             THEN response.message.s ELSE "")
        /\ (NonEmptyStr(response.student_name) /\ ~IsTrue(response.success))
              => ~result.success
        /\ result = PairingDecode(200, [response EXCEPT !.data = NoData])
C30_Witness ==
    /\ PairingAt200 /\ response.success = JBool(FALSE)
    /\ response.student_name = JStr("Alice")
    /\ response.data.present /\ response.data.student_name = JStr("Bob")
    /\ result.studentName = "Alice" /\ ~result.success

StatusReturned == Returned /\ call = "status"
\* the status poll got a 200 whose body parses and says success = true
StatusSucceeded == httpCode = 200 /\ response.wf /\ IsTrue(response.success)

\* C31: checkPairingStatus outcome invariant.  sessionActive is true only if
\* the status was 200, the body well-formed, the top-level success flag true
\* and a data section present with data.active true (a non-empty studentName
\* likewise needs status 200, a well-formed body, success true and a data
\* section, whose student_name it is); a malformed body, a non-200 status or
\* success = false yields the zero outcome even when data.active is true.
C31_StatusOutcome ==
    StatusReturned =>
        /\ result.sessionActive
              => /\ StatusSucceeded /\ response.data.present
                 /\ IsTrue(response.data.active)
        /\ result.studentName # ""
              => /\ StatusSucceeded /\ response.data.present
                 /\ response.data.student_name = JStr(result.studentName)
        /\ ~StatusSucceeded => result = ZeroPairingOutcome
C31_Witness ==
    /\ StatusReturned /\ httpCode = 200 /\ response.wf
    /\ response.success = JBool(FALSE) /\ response.data.active = JBool(TRUE)
    /\ response.data.student_name = JStr("Alice")
    /\ result = ZeroPairingOutcome

\* C32: attendance errorCode invariant.  The errorCode of a recordAttendance
\* outcome is non-empty only when the status was 400 or 404, and then
\* success = false, studentName is empty and the status label is empty; on
\* status 200, on any other status, on transport failure and when
\* unconfigured, errorCode is empty.
C32_ErrorCodeOnlyOnRejection ==
    call = "attendance" =>
        /\ result.errorCode # ""
              => /\ Returned /\ httpCode \in {400, 404}
                 /\ ~result.success
                 /\ result.studentName = "" /\ result.status = ""
        /\ (Returned /\ httpCode \notin {400, 404}) => result.errorCode = ""
C32_Witness ==
    /\ Returned /\ call = "attendance" /\ httpCode = 500
    /\ response = RejectionBody /\ result.errorCode = ""
    /\ result.message = HttpErrorMsg(500)

\* C33: pairing entry and exit inherit the no-op transition rule.
\* enterPairingMode(n2) called in PAIRING_MODE replaces the identity with n2
\* and leaves the mode, the previous mode and the entry timestamp unchanged,
\* so dwell time and timeouts are not restarted; exitPairingMode() called in
\* IDLE clears the identity and leaves the same three unchanged.
C33_PairingNoOpTransition ==
    [][/\ (last'.op = "enterPairingMode" /\ currentState = "PAIRING_MODE")
             => /\ pairingStudentName' = last'.arg
                /\ UNCHANGED <<currentState, previousState, stateEnteredAt>>
                /\ getTimeInState' = getTimeInState
                /\ \A T \in Thresholds : hasTimedOut(T)' = hasTimedOut(T)
       /\ (last'.op = "exitPairingMode" /\ currentState = "IDLE")
             => /\ pairingStudentName' = ""
                /\ UNCHANGED <<currentState, previousState, stateEnteredAt>>
                /\ getTimeInState' = getTimeInState]_vars
C33_Witness ==
    /\ last = Event("enterPairingMode", "Bob") /\ currentState = "PAIRING_MODE"
    /\ pairingStudentName = "Bob" /\ previousState = "PROCESSING_CARD"
    /\ getTimeInState = 2 /\ hasTimedOut(2)

====
